---- MODULE Spec2Model ----
(***************************************************************************)
(* Model of the data-linking scripts of pepbench-tcr:                      *)
(*   03_netmhcpan/prepare_sequences.py   (Sequence Expander)               *)
(*   03_netmhcpan/filter_binders.py      (Binder Filter & Provenance Map)  *)
(*   04_rosetta_thread/prepare_threading.py (Threading Command Generator)  *)
(*                                                                         *)
(* Text is modelled as sequences of one-character strings, so that         *)
(* strip, upper, split, startswith, endswith and sorted are computed the   *)
(* way Python computes them.  Each script is a sequential batch program;   *)
(* one action is one iteration of one of its loops.  The command line is   *)
(* taken to carry all its positional arguments.                            *)
(***************************************************************************)
EXTENDS Integers, Sequences, FiniteSets, TLC

\* ------------------------------------------------------------------ bounds
\* Lines per design file.
MaxLines == 2
\* Rows of the prediction report.
MaxRows == 3
\* Lines of the filtered FASTA read by the threading generator.
MaxFasta == 5

\* ------------------------------------------------------------------- state
\* State of prepare_sequences.py
VARIABLES
  e_tree,                 \* input: the tree under input_root
  e_pc,                   \* position in main
  e_dirs,                 \* directories os.walk has yet to yield
  e_root,                 \* root of the directory being listed
  e_files,                \* sorted(files) yet to visit in that directory
  e_fname,                \* file being read
  e_lines,                \* lines yet to read of that file
  e_base,                 \* len(all_seqs) when the file was opened
  e_opened,               \* the files opened so far, as <<directory parts, name>>
  first_header_seen,
  drop_next_seq_line,
  all_seqs,
  e_out,                  \* the output artifact, <<"none">> until written
  e_printed               \* the count printed at the end, -1 until printed

evars == << e_tree, e_pc, e_dirs, e_root, e_files, e_fname, e_lines, e_base, e_opened,
            first_header_seen, drop_next_seq_line, all_seqs, e_out, e_printed >>

\* State of filter_binders.py
VARIABLES
  f_tree,                 \* input: the tree under mpnn_dir
  f_report_exists,        \* input: whether netmhc_file exists
  f_pc,
  f_dirs, f_root, f_files, f_fname, f_lines,
  exp_name,
  header,
  peptide_to_header,
  total_files,
  total_entries,
  f_nread,                \* report lines read so far
  f_line,                 \* the report line of the current iteration
  pep_orig,               \* the peptide recovered from that line, NoPeptide if none
  sbwb_trimmed,
  too_short,
  f_qualifying,           \* lines read so far that carry a binder marker
  f_added,                \* lines read so far that reached sbwb_trimmed.add
  f_todo,                 \* sorted(sbwb_trimmed) yet to write
  unmapped,
  count,
  f_out,                  \* the output artifact: records [hdr, seq]; NoFile until opened
  f_printed               \* the values printed so far, by name

fvars == << f_tree, f_report_exists, f_pc, f_dirs, f_root, f_files, f_fname, f_lines,
            exp_name, header, peptide_to_header, total_files, total_entries,
            f_nread, f_line, pep_orig, sbwb_trimmed, too_short, f_qualifying, f_added,
            f_todo, unmapped, count, f_out, f_printed >>

\* State of prepare_threading.py
VARIABLES
  t_fasta,                \* input: the lines of fasta_path
  t_fasta_exists,         \* input: whether fasta_path is a file
  t_pdb_dir_exists,       \* input: whether pdb_dir is a directory
  t_pdbs,                 \* input: the names of the files in pdb_dir
  t_pc,
  t_lines,                \* lines yet to read
  t_header,
  per_pdb_count,
  n_commands,
  missing,
  commands,
  t_cmd_file,             \* threading_commands.txt, NoFile until written
  t_printed

tvars == << t_fasta, t_fasta_exists, t_pdb_dir_exists, t_pdbs, t_pc, t_lines, t_header,
            per_pdb_count, n_commands, missing, commands, t_cmd_file, t_printed >>

vars == << evars, fvars, tvars >>

\* -------------------------------------------------------------------- text
\* The characters of the model in code-point order.
Ascii ==
  << "\t", " ", ",", ".", "/",
     "0", "1", "2", "3", "4", "5", "6", "7", "8", "9",
     "<", "=", ">",
     "A", "B", "C", "D", "E", "F", "G", "H", "I", "J", "K", "L", "M",
     "N", "O", "P", "Q", "R", "S", "T", "U", "V", "W", "X", "Y", "Z",
     "_",
     "a", "b", "c", "d", "e", "f", "g", "h", "i", "j", "k", "l", "m",
     "n", "o", "p", "q", "r", "s", "t", "u", "v", "w", "x", "y", "z" >>

UpperLetters == SubSeq(Ascii, 19, 44)

LowerLetters == SubSeq(Ascii, 46, 71)

Digits == SubSeq(Ascii, 6, 15)

Whitespace == {"\t", " "}

Ord(c) == CHOOSE i \in 1..Len(Ascii) : Ascii[i] = c

Pos(c, letters) == CHOOSE i \in 1..Len(letters) : letters[i] = c

InSeq(c, letters) == \E i \in 1..Len(letters) : letters[i] = c

UpperChar(c) == IF InSeq(c, LowerLetters) THEN UpperLetters[Pos(c, LowerLetters)] ELSE c

LowerChar(c) == IF InSeq(c, UpperLetters) THEN LowerLetters[Pos(c, UpperLetters)] ELSE c

\* str.upper(), str.lower()
Upper(s) == [i \in 1..Len(s) |-> UpperChar(s[i])]

Lower(s) == [i \in 1..Len(s) |-> LowerChar(s[i])]

\* str.startswith(p), str.endswith(p), p in s
StartsWith(s, p) == Len(s) >= Len(p) /\ SubSeq(s, 1, Len(p)) = p

EndsWith(s, p) == Len(s) >= Len(p) /\ SubSeq(s, Len(s) - Len(p) + 1, Len(s)) = p

Contains(s, p) == \E i \in 1..(Len(s) - Len(p) + 1) : SubSeq(s, i, i + Len(p) - 1) = p

SetMin(S) == CHOOSE x \in S : \A y \in S : x <= y

SetMax(S) == CHOOSE x \in S : \A y \in S : x >= y

\* str.strip(): leading and trailing whitespace removed
Strip(s) ==
  LET keep == {i \in 1..Len(s) : s[i] \notin Whitespace}
  IN  IF keep = {} THEN << >> ELSE SubSeq(s, SetMin(keep), SetMax(keep))

\* s[1:]
DropFirst(s) == SubSeq(s, 2, Len(s))

\* Python's order on str: lexicographic by code point, a proper prefix first.
RECURSIVE StrLess(_, _)
StrLess(a, b) ==
  IF b = << >> THEN FALSE
  ELSE IF a = << >> THEN TRUE
  ELSE IF Head(a) = Head(b) THEN StrLess(Tail(a), Tail(b))
  ELSE Ord(Head(a)) < Ord(Head(b))

\* sorted(S) for a collection of distinct strings
RECURSIVE Sorted(_)
Sorted(S) ==
  IF S = {} THEN << >>
  ELSE LET m == CHOOSE x \in S : \A y \in S \ {x} : StrLess(x, y)
       IN  <<m>> \o Sorted(S \ {m})

\* The first position at or after i where pattern p starts in s, 0 if none.
FindFrom(s, p, i) ==
  LET hits == {j \in i..(Len(s) - Len(p) + 1) : SubSeq(s, j, j + Len(p) - 1) = p}
  IN  IF hits = {} THEN 0 ELSE SetMin(hits)

\* s.split(p, 1)[0]
SplitFirst(s, p) ==
  LET j == FindFrom(s, p, 1)
  IN  IF j = 0 THEN s ELSE SubSeq(s, 1, j - 1)

\* re.split(r"\s+", s) for a stripped s: the maximal runs of non-whitespace;
\* the empty string splits into one empty part.
RECURSIVE Runs(_, _)
Runs(s, cur) ==
  IF s = << >> THEN (IF cur = << >> THEN << >> ELSE <<cur>>)
  ELSE IF Head(s) \in Whitespace
       THEN (IF cur = << >> THEN Runs(Tail(s), << >>) ELSE <<cur>> \o Runs(Tail(s), << >>))
       ELSE Runs(Tail(s), Append(cur, Head(s)))

SplitWS(s) == IF s = << >> THEN << << >> >> ELSE Runs(s, << >>)

\* str(n) for n >= 0
RECURSIVE IntToStr(_)
IntToStr(n) ==
  IF n < 10 THEN <<Digits[n + 1]>>
  ELSE IntToStr(n \div 10) \o <<Digits[(n % 10) + 1]>>

\* ------------------------------------------------------------ design trees
\* A design tree is [exists, walk]: whether the root directory exists, and
\* the directories os.walk yields, each [parts, files] with parts the path
\* components of the directory and files a function from file name to the
\* file's lines.
DirOut == <<"o">>

DirSeqs == <<"s", "e", "q", "s">>

DirExp1 == <<"e", "1">>

DirExp2 == <<"e", "2">>

FaExt == <<".", "f", "a">>

NameLowerA == <<"a", ".", "f", "a">>

NameLowerB == <<"b", ".", "f", "a">>

NameUpperA == <<"a", ".", "F", "A">>

NameTxt == <<"c", ".", "t", "x", "t">>

HdrRef == <<">", "r">>

HdrDesign == <<">", "d", " ">>

HdrEmpty == <<">">>

SeqUpper == <<"A", "C">>

SeqLower == <<"c", "a", " ">>

BlankLine == <<" ">>

DesignLines == {HdrRef, HdrDesign, HdrEmpty, SeqUpper, SeqLower, BlankLine}

RECURSIVE SeqsUpTo(_, _)
SeqsUpTo(S, n) ==
  IF n = 0 THEN {<< >>}
  ELSE LET shorter == SeqsUpTo(S, n - 1)
       IN  shorter \cup {Append(s, x) : s \in {t \in shorter : Len(t) = n - 1}, x \in S}

Contents == SeqsUpTo(DesignLines, MaxLines)

\* A well-formed companion file: a reference record and one design record.
PlainFile == <<HdrRef, SeqUpper, HdrDesign, <<"C">> >>

\* ------------------------------------------------- prepare_sequences.py
AA_LIST ==
  << "A", "C", "D", "E", "F", "G", "H", "I", "K", "L",
     "M", "N", "P", "Q", "R", "S", "T", "V", "W", "Y" >>

NoFile == <<"none">>

\* The file filter of prepare_sequences.py: fname.endswith(".fa")
ExpanderMatches(fname) == EndsWith(fname, FaExt)

\* Lines 65-66: one expanded string per anchor, in AA_LIST order.
Expand(line) == [i \in 1..Len(AA_LIST) |-> <<AA_LIST[i]>> \o line]

\* Lines 51-66: the body of the line loop, on the loop's three variables.
ExpLineStep(st, raw) ==
  LET line == Strip(raw)
  IN  IF line = << >> THEN st
      ELSE IF StartsWith(line, <<">">>)
      THEN (IF st.seen THEN st ELSE [st EXCEPT !.seen = TRUE, !.drop = TRUE])
      ELSE IF st.drop THEN [st EXCEPT !.drop = FALSE]
      ELSE [st EXCEPT !.out = st.out \o Expand(line)]

ExpInitState ==
  /\ e_pc = "start"
  /\ e_dirs = << >>
  /\ e_root = << >>
  /\ e_files = << >>
  /\ e_fname = << >>
  /\ e_lines = << >>
  /\ e_base = 0
  /\ e_opened = {}
  /\ first_header_seen = FALSE
  /\ drop_next_seq_line = FALSE
  /\ all_seqs = << >>
  /\ e_out = NoFile
  /\ e_printed = -1

\* Lines 32-38: the input root must be a directory.
ExpStart ==
  /\ e_pc = "start"
  /\ IF e_tree.exists
     THEN /\ e_pc' = "walk"
          /\ e_dirs' = e_tree.walk
     ELSE /\ e_pc' = "exit1"
          /\ e_dirs' = e_dirs
  /\ UNCHANGED << e_tree, e_root, e_files, e_fname, e_lines, e_base, e_opened,
                  first_header_seen, drop_next_seq_line, all_seqs, e_out, e_printed >>
  /\ UNCHANGED << fvars, tvars >>

\* Lines 40-41: os.walk yields the next directory; its files are sorted.
ExpNextDir ==
  /\ e_pc = "walk"
  /\ e_files = << >>
  /\ e_dirs # << >>
  /\ e_root' = Head(e_dirs).parts
  /\ e_files' = Sorted(DOMAIN Head(e_dirs).files)
  /\ e_dirs' = Tail(e_dirs)
  /\ UNCHANGED << e_tree, e_pc, e_fname, e_lines, e_base, e_opened,
                  first_header_seen, drop_next_seq_line, all_seqs, e_out, e_printed >>
  /\ UNCHANGED << fvars, tvars >>

FileLines(tree, root, fname) ==
  LET d == CHOOSE d \in {tree.walk[i] : i \in 1..Len(tree.walk)} : d.parts = root
  IN  d.files[fname]

\* Lines 42-49: skip a file that does not match, else open it.
ExpNextFile ==
  /\ e_pc = "walk"
  /\ e_files # << >>
  /\ e_files' = Tail(e_files)
  /\ IF ExpanderMatches(Head(e_files))
     THEN /\ e_pc' = "lines"
          /\ e_fname' = Head(e_files)
          /\ e_lines' = FileLines(e_tree, e_root, Head(e_files))
          /\ e_base' = Len(all_seqs)
          /\ e_opened' = e_opened \cup {<<e_root, Head(e_files)>>}
          /\ first_header_seen' = FALSE
          /\ drop_next_seq_line' = FALSE
     ELSE UNCHANGED << e_pc, e_fname, e_lines, e_base, e_opened, first_header_seen,
                       drop_next_seq_line >>
  /\ UNCHANGED << e_tree, e_dirs, e_root, all_seqs, e_out, e_printed >>
  /\ UNCHANGED << fvars, tvars >>

\* Lines 50-66: one line of the open file.
ExpLine ==
  /\ e_pc = "lines"
  /\ e_lines # << >>
  /\ e_lines' = Tail(e_lines)
  /\ LET st == ExpLineStep([seen |-> first_header_seen, drop |-> drop_next_seq_line,
                            out |-> all_seqs], Head(e_lines))
     IN  /\ first_header_seen' = st.seen
         /\ drop_next_seq_line' = st.drop
         /\ all_seqs' = st.out
  /\ UNCHANGED << e_tree, e_pc, e_dirs, e_root, e_files, e_fname, e_base, e_opened, e_out, e_printed >>
  /\ UNCHANGED << fvars, tvars >>

\* End of the file's lines: the with block closes, the walk goes on.
ExpEndOfFile ==
  /\ e_pc = "lines"
  /\ e_lines = << >>
  /\ e_pc' = "walk"
  /\ UNCHANGED << e_tree, e_dirs, e_root, e_files, e_fname, e_lines, e_base, e_opened,
                  first_header_seen, drop_next_seq_line, all_seqs, e_out, e_printed >>
  /\ UNCHANGED << fvars, tvars >>

\* Lines 68-71: the output artifact and the printed count.
ExpWrite ==
  /\ e_pc = "walk"
  /\ e_files = << >>
  /\ e_dirs = << >>
  /\ e_out' = all_seqs
  /\ e_printed' = Len(all_seqs)
  /\ e_pc' = "done"
  /\ UNCHANGED << e_tree, e_dirs, e_root, e_files, e_fname, e_lines, e_base, e_opened,
                  first_header_seen, drop_next_seq_line, all_seqs >>
  /\ UNCHANGED << fvars, tvars >>

ExpNext == ExpStart \/ ExpNextDir \/ ExpNextFile \/ ExpLine \/ ExpEndOfFile \/ ExpWrite

\* The set of strings prepare_sequences.py writes for a tree (lines 40-66),
\* as the fold of the line step over every matching file.
RECURSIVE FoldLines(_, _)
FoldLines(st, lines) ==
  IF lines = << >> THEN st ELSE FoldLines(ExpLineStep(st, Head(lines)), Tail(lines))

ExpandFile(lines) == FoldLines([seen |-> FALSE, drop |-> FALSE, out |-> << >>], lines).out

Range(f) == {f[i] : i \in DOMAIN f}

ExpanderStrings(tree) ==
  IF ~tree.exists THEN {}
  ELSE UNION { UNION { Range(ExpandFile(d.files[n])) :
                       n \in {m \in DOMAIN d.files : ExpanderMatches(m)} } :
               d \in Range(tree.walk) }

\* --------------------------------------------------------- the input trees
MissingTree == [exists |-> FALSE, walk |-> << >>]

\* One experiment directory out/e1/seqs holding b.fa, a.FA and c.txt.
TreeOne(c1, c2) ==
  [exists |-> TRUE,
   walk |-> << [parts |-> <<DirOut, DirExp1, DirSeqs>>,
                files |-> (NameLowerB :> c1) @@ (NameUpperA :> c2) @@ (NameTxt :> c2)] >>]

\* A root literally named seqs holding a.fa, and seqs/e2 holding b.fa.
TreeTwo(c1, c2) ==
  [exists |-> TRUE,
   walk |-> << [parts |-> <<DirSeqs>>, files |-> (NameLowerA :> c1)],
               [parts |-> <<DirSeqs, DirExp2>>, files |-> (NameLowerB :> c2)] >>]

Companions == {PlainFile, <<HdrDesign, SeqLower>>}

\* The trees the Binder Filter is run on: well-formed files, a file whose
\* header is empty, a file that starts with a sequence line, sequences that
\* differ only in letter case, and the same sequence in two files.
FilterContents ==
  { PlainFile,
    <<HdrEmpty, SeqUpper>>,
    <<SeqUpper, HdrRef>>,
    <<HdrRef, SeqLower, HdrDesign, SeqUpper>>,
    <<HdrRef, BlankLine, SeqUpper, SeqLower>>,
    << >> }

FilterTrees ==
  {MissingTree}
    \cup {TreeOne(c, PlainFile) : c \in FilterContents}
    \cup {TreeTwo(c, <<HdrDesign, SeqLower>>) : c \in FilterContents}

Trees ==
  {MissingTree}
    \cup {TreeOne(c1, c2) : c1 \in Contents, c2 \in Companions}
    \cup {TreeTwo(c1, c2) : c1 \in Contents, c2 \in Companions}

\* ----------------------------------------------------- filter_binders.py
NoHeader == <<"None">>

NoPeptide == <<"None">>

MarkerSB == <<"<", "=", " ", "S", "B">>

MarkerWB == <<"<", "=", " ", "W", "B">>

Sep == <<"_", "_">>

UnmappedTag == <<"u", "n", "m", "a", "p", "p", "e", "d">>

\* The file filter of filter_binders.py: f.lower().endswith(".fa")
FilterMatches(fname) == EndsWith(Lower(fname), FaExt)

\* get_experiment_name: parts of the file's path, the component before the
\* first "seqs" when there is one past position 0, else the parent's name.
get_experiment_name(parts) ==
  LET hits == {i \in 1..Len(parts) : parts[i] = DirSeqs}
  IN  IF hits # {} /\ SetMin(hits) > 1
      THEN parts[SetMin(hits) - 1]
      ELSE parts[Len(parts) - 1]

\* f"{exp_name}__{header}"
CompositeHeader(exp, hdr) == exp \o Sep \o hdr

\* f"unmapped__{pep}"
UnmappedHeader(pep) == UnmappedTag \o Sep \o pep

\* Line 77: the marker test on the raw line.
Qualifies(line) == Contains(line, MarkerSB) \/ Contains(line, MarkerWB)

\* Line 78: re.split(r"\s+", line.strip())
RowParts(line) == SplitWS(Strip(line))

\* A report row of the predictor: position, allele, peptide, score, call.
MkRow(pep, marker) ==
  <<"1", " ", "H", " ">> \o pep \o <<" ", "0", ".", "1", " ">> \o marker

ShortRow == <<"1", " ", "H", " ", "A", " ">> \o MarkerWB

TwoTokenRow == MarkerSB

TabbedRow == <<"1", "\t", "H", " ", " ", "G", "c", "a", " ">> \o MarkerSB

PlainRow == <<"1", " ", "H", " ", "A", "C", "A", " ", "0", ".", "9">>

\* The rows a report over a tree may hold: every string the Expander wrote
\* for the tree, called strong, weak or not at all, and a few other rows.
ReportRows(tree) ==
  {MkRow(s, m) : s \in ExpanderStrings(tree), m \in {MarkerSB, MarkerWB}}
    \cup {ShortRow, TwoTokenRow, TabbedRow, PlainRow}

\* A mistaken trim that drops the last symbol instead of the first.
TrimLast(pep_full) == SubSeq(pep_full, 1, Len(pep_full) - 1)

\* Line 84: pep_full[1:], the prepended anchor trimmed
TrimAnchor(pep_full) == DropFirst(pep_full)

FilInitState ==
  /\ f_pc = "start"
  /\ f_dirs = << >>
  /\ f_root = << >>
  /\ f_files = << >>
  /\ f_fname = << >>
  /\ f_lines = << >>
  /\ exp_name = << >>
  /\ header = NoHeader
  /\ peptide_to_header = << >>
  /\ total_files = 0
  /\ total_entries = 0
  /\ f_nread = 0
  /\ f_line = << >>
  /\ pep_orig = NoPeptide
  /\ sbwb_trimmed = {}
  /\ too_short = 0
  /\ f_qualifying = 0
  /\ f_added = 0
  /\ f_todo = << >>
  /\ unmapped = 0
  /\ count = 0
  /\ f_out = NoFile
  /\ f_printed = << >>

\* Lines 43-46: os.walk(mpnn_dir); a root that does not exist yields nothing.
FilStart ==
  /\ f_pc = "start"
  /\ f_pc' = "walk"
  /\ f_dirs' = IF f_tree.exists THEN f_tree.walk ELSE << >>
  /\ UNCHANGED << f_tree, f_report_exists, f_root, f_files, f_fname, f_lines,
                  exp_name, header, peptide_to_header, total_files, total_entries,
                  f_nread, f_line, pep_orig, sbwb_trimmed, too_short, f_qualifying,
                  f_added, f_todo, unmapped, count, f_out, f_printed >>
  /\ UNCHANGED << evars, tvars >>

\* Lines 46-47: the next directory of the walk, its files sorted.
FilNextDir ==
  /\ f_pc = "walk"
  /\ f_files = << >>
  /\ f_dirs # << >>
  /\ f_root' = Head(f_dirs).parts
  /\ f_files' = Sorted(DOMAIN Head(f_dirs).files)
  /\ f_dirs' = Tail(f_dirs)
  /\ UNCHANGED << f_tree, f_report_exists, f_pc, f_fname, f_lines,
                  exp_name, header, peptide_to_header, total_files, total_entries,
                  f_nread, f_line, pep_orig, sbwb_trimmed, too_short, f_qualifying,
                  f_added, f_todo, unmapped, count, f_out, f_printed >>
  /\ UNCHANGED << evars, tvars >>

\* Lines 48-55: skip a file that does not match, else count and open it.
FilNextFile ==
  /\ f_pc = "walk"
  /\ f_files # << >>
  /\ f_files' = Tail(f_files)
  /\ IF FilterMatches(Head(f_files))
     THEN /\ f_pc' = "lines"
          /\ total_files' = total_files + 1
          /\ f_fname' = Head(f_files)
          /\ exp_name' = get_experiment_name(Append(f_root, Head(f_files)))
          /\ f_lines' = FileLines(f_tree, f_root, Head(f_files))
          /\ header' = NoHeader
     ELSE UNCHANGED << f_pc, total_files, f_fname, exp_name, f_lines, header >>
  /\ UNCHANGED << f_tree, f_report_exists, f_dirs, f_root,
                  peptide_to_header, total_entries,
                  f_nread, f_line, pep_orig, sbwb_trimmed, too_short, f_qualifying,
                  f_added, f_todo, unmapped, count, f_out, f_printed >>
  /\ UNCHANGED << evars, tvars >>

\* Lines 56-66: one line of the open file.
FilLine ==
  /\ f_pc = "lines"
  /\ f_lines # << >>
  /\ f_lines' = Tail(f_lines)
  /\ LET line == Strip(Head(f_lines))
     IN  IF line = << >>
         THEN UNCHANGED << header, peptide_to_header, total_entries >>
         ELSE IF StartsWith(line, <<">">>)
         THEN /\ header' = DropFirst(line)
              /\ UNCHANGED << peptide_to_header, total_entries >>
         ELSE IF Upper(line) # << >> /\ header # NoHeader /\ header # << >>
         THEN /\ peptide_to_header' =
                   (Upper(line) :> CompositeHeader(exp_name, header)) @@ peptide_to_header
              /\ total_entries' = total_entries + 1
              /\ UNCHANGED header
         ELSE UNCHANGED << header, peptide_to_header, total_entries >>
  /\ UNCHANGED << f_tree, f_report_exists, f_pc, f_dirs, f_root, f_files, f_fname,
                  exp_name, total_files,
                  f_nread, f_line, pep_orig, sbwb_trimmed, too_short, f_qualifying,
                  f_added, f_todo, unmapped, count, f_out, f_printed >>
  /\ UNCHANGED << evars, tvars >>

FilEndOfFile ==
  /\ f_pc = "lines"
  /\ f_lines = << >>
  /\ f_pc' = "walk"
  /\ UNCHANGED << f_tree, f_report_exists, f_dirs, f_root, f_files, f_fname, f_lines,
                  exp_name, header, peptide_to_header, total_files, total_entries,
                  f_nread, f_line, pep_orig, sbwb_trimmed, too_short, f_qualifying,
                  f_added, f_todo, unmapped, count, f_out, f_printed >>
  /\ UNCHANGED << evars, tvars >>

\* Lines 68-75: the [INDEX] line, then open(netmhc_file): a report that does
\* not exist raises FileNotFoundError, which nothing catches.
FilIndexDone ==
  /\ f_pc = "walk"
  /\ f_files = << >>
  /\ f_dirs = << >>
  /\ f_printed' = ("files" :> total_files) @@ ("entries" :> total_entries)
                    @@ ("unique_indexed" :> Cardinality(DOMAIN peptide_to_header))
  /\ f_pc' = IF f_report_exists THEN "rows" ELSE "uncaught"
  /\ UNCHANGED << f_tree, f_report_exists, f_dirs, f_root, f_files, f_fname, f_lines,
                  exp_name, header, peptide_to_header, total_files, total_entries,
                  f_nread, f_line, pep_orig, sbwb_trimmed, too_short, f_qualifying,
                  f_added, f_todo, unmapped, count, f_out >>
  /\ UNCHANGED << evars, tvars >>

\* Lines 76-86: one line of the report.
FilRow ==
  /\ f_pc = "rows"
  /\ f_nread < MaxRows
  /\ \E line \in ReportRows(f_tree) :
       LET parts == RowParts(line)
           pep_full == Upper(parts[3])
       IN  /\ f_line' = line
           /\ f_nread' = f_nread + 1
           /\ f_qualifying' = IF Qualifies(line) THEN f_qualifying + 1 ELSE f_qualifying
           /\ IF Qualifies(line) /\ Len(parts) >= 3
              THEN IF Len(pep_full) < 2
                   THEN /\ too_short' = too_short + 1
                        /\ pep_orig' = NoPeptide
                        /\ UNCHANGED << sbwb_trimmed, f_added >>
                   ELSE /\ pep_orig' = TrimAnchor(pep_full)
                        /\ IF TrimAnchor(pep_full) # << >>
                           THEN /\ sbwb_trimmed' = sbwb_trimmed \cup {TrimAnchor(pep_full)}
                                /\ f_added' = f_added + 1
                           ELSE UNCHANGED << sbwb_trimmed, f_added >>
                        /\ UNCHANGED too_short
              ELSE /\ pep_orig' = NoPeptide
                   /\ UNCHANGED << sbwb_trimmed, too_short, f_added >>
  /\ UNCHANGED << f_tree, f_report_exists, f_pc, f_dirs, f_root, f_files, f_fname, f_lines,
                  exp_name, header, peptide_to_header, total_files, total_entries,
                  f_todo, unmapped, count, f_out, f_printed >>
  /\ UNCHANGED << evars, tvars >>

\* A mistaken order: the peptides descending.
RECURSIVE SortedDescending(_)
SortedDescending(S) ==
  IF S = {} THEN << >>
  ELSE LET m == CHOOSE x \in S : \A y \in S \ {x} : StrLess(y, x)
       IN  <<m>> \o SortedDescending(S \ {m})

\* sorted(sbwb_trimmed), line 96
SortedPeptides(S) == Sorted(S)

\* Lines 88-95: end of the report; the [FILTER] line; the output is opened.
FilReportEnd ==
  /\ f_pc = "rows"
  /\ f_printed' = ("unique_qualifying" :> Cardinality(sbwb_trimmed)) @@ f_printed
  /\ f_todo' = SortedPeptides(sbwb_trimmed)
  /\ f_out' = << >>
  /\ f_pc' = "merge"
  /\ UNCHANGED << f_tree, f_report_exists, f_dirs, f_root, f_files, f_fname, f_lines,
                  exp_name, header, peptide_to_header, total_files, total_entries,
                  f_nread, f_line, pep_orig, sbwb_trimmed, too_short, f_qualifying,
                  f_added, unmapped, count >>
  /\ UNCHANGED << evars, tvars >>

\* Lines 96-102: one peptide of the sorted set.
FilMerge ==
  /\ f_pc = "merge"
  /\ f_todo # << >>
  /\ LET pep == Head(f_todo)
     IN  IF pep \in DOMAIN peptide_to_header
         THEN /\ f_out' = Append(f_out, [hdr |-> peptide_to_header[pep], seq |-> pep])
              /\ UNCHANGED unmapped
         ELSE /\ f_out' = Append(f_out, [hdr |-> UnmappedHeader(pep), seq |-> pep])
              /\ unmapped' = unmapped + 1
  /\ count' = count + 1
  /\ f_todo' = Tail(f_todo)
  /\ UNCHANGED << f_tree, f_report_exists, f_pc, f_dirs, f_root, f_files, f_fname, f_lines,
                  exp_name, header, peptide_to_header, total_files, total_entries,
                  f_nread, f_line, pep_orig, sbwb_trimmed, too_short, f_qualifying,
                  f_added, f_printed >>
  /\ UNCHANGED << evars, tvars >>

\* Line 104: the [OUTPUT] line.
FilDone ==
  /\ f_pc = "merge"
  /\ f_todo = << >>
  /\ f_printed' = ("written" :> count) @@ ("unmapped" :> unmapped) @@ f_printed
  /\ f_pc' = "done"
  /\ UNCHANGED << f_tree, f_report_exists, f_dirs, f_root, f_files, f_fname, f_lines,
                  exp_name, header, peptide_to_header, total_files, total_entries,
                  f_nread, f_line, pep_orig, sbwb_trimmed, too_short, f_qualifying,
                  f_added, f_todo, unmapped, count, f_out >>
  /\ UNCHANGED << evars, tvars >>

FilNext ==
  FilStart \/ FilNextDir \/ FilNextFile \/ FilLine \/ FilEndOfFile \/ FilIndexDone
    \/ FilRow \/ FilReportEnd \/ FilMerge \/ FilDone

\* ---------------------------------------------------- prepare_threading.py
PdbDir == <<"p", "d", "b", "s">>

OutputDir == <<"o", "u", "t">>

PdbExt == <<".", "p", "d", "b">>

ThreadedTag == <<"t", "h", "r", "e", "a", "d", "e", "d", "_">>

PreviewLen == 10

\* header_to_pdb_stem: header.split(",", 1)[0].split("__", 1)[0]
header_to_pdb_stem(hdr) == SplitFirst(SplitFirst(hdr, <<",">>), Sep)

\* os.path.join(pdb_dir, pdb_stem + ".pdb")
PdbPath(stem) == PdbDir \o <<"/">> \o stem \o PdbExt

\* os.path.isfile(pdb_path), for the files of pdb_dir
IsPdbFile(stem, pdbs) == (stem \o PdbExt) \in pdbs

\* os.path.join(output_dir, f"threaded_{local_idx}_")
OutPrefix(local_idx) == OutputDir \o <<"/">> \o ThreadedTag \o IntToStr(local_idx) \o <<"_">>

\* A mistaken counter whose first index is 0.
CountAfterZeroBased(counts, stem) ==
  IF stem \in DOMAIN counts THEN [counts EXCEPT ![stem] = @ + 1] ELSE (stem :> 0) @@ counts

\* per_pdb_count[pdb_stem] += 1 on a defaultdict(int)
CountAfter(counts, stem) ==
  IF stem \in DOMAIN counts THEN [counts EXCEPT ![stem] = @ + 1] ELSE (stem :> 1) @@ counts

\* sorted(unique_missing)[:10]
MissingPreview(stems) ==
  LET all == Sorted(Range(stems))
  IN  SubSeq(all, 1, IF Len(all) < PreviewLen THEN Len(all) ELSE PreviewLen)

ThrInitState ==
  /\ t_pc = "start"
  /\ t_lines = << >>
  /\ t_header = NoHeader
  /\ per_pdb_count = << >>
  /\ n_commands = 0
  /\ missing = << >>
  /\ commands = << >>
  /\ t_cmd_file = NoFile
  /\ t_printed = << >>

\* Lines 42-58: both inputs must exist; the FASTA is opened.
ThrStart ==
  /\ t_pc = "start"
  /\ IF t_fasta_exists /\ t_pdb_dir_exists
     THEN /\ t_pc' = "lines"
          /\ t_lines' = t_fasta
     ELSE /\ t_pc' = "exit1"
          /\ t_lines' = t_lines
  /\ UNCHANGED << t_fasta, t_fasta_exists, t_pdb_dir_exists, t_pdbs, t_header,
                  per_pdb_count, n_commands, missing, commands, t_cmd_file, t_printed >>
  /\ UNCHANGED << evars, fvars >>

\* Lines 60-92: one line of the FASTA.
ThrLine ==
  /\ t_pc = "lines"
  /\ t_lines # << >>
  /\ t_lines' = Tail(t_lines)
  /\ LET line == Strip(Head(t_lines))
         pdb_stem == header_to_pdb_stem(t_header)
         counts == CountAfter(per_pdb_count, pdb_stem)
     IN  IF line = << >>
         THEN UNCHANGED << t_pc, t_header, per_pdb_count, n_commands, missing, commands >>
         ELSE IF StartsWith(line, <<">">>)
         THEN /\ t_header' = DropFirst(line)
              /\ UNCHANGED << t_pc, per_pdb_count, n_commands, missing, commands >>
         ELSE IF t_header = NoHeader
         THEN /\ t_pc' = "uncaught"
              /\ UNCHANGED << t_header, per_pdb_count, n_commands, missing, commands >>
         ELSE IF ~IsPdbFile(pdb_stem, t_pdbs)
         THEN /\ missing' = Append(missing, pdb_stem)
              /\ UNCHANGED << t_pc, t_header, per_pdb_count, n_commands, commands >>
         ELSE /\ per_pdb_count' = counts
              /\ commands' = Append(commands,
                                    [in_file |-> PdbPath(pdb_stem),
                                     sequence |-> line,
                                     prefix |-> OutPrefix(counts[pdb_stem])])
              /\ n_commands' = n_commands + 1
              /\ UNCHANGED << t_pc, t_header, missing >>
  /\ UNCHANGED << t_fasta, t_fasta_exists, t_pdb_dir_exists, t_pdbs, t_cmd_file, t_printed >>
  /\ UNCHANGED << evars, fvars >>

\* Lines 94-106: the command file and the summary.
ThrWrite ==
  /\ t_pc = "lines"
  /\ t_lines = << >>
  /\ t_cmd_file' = commands
  /\ t_printed' = ("commands" :> <<n_commands>>)
                    @@ ("backbones" :> <<Cardinality(DOMAIN per_pdb_count)>>)
                    @@ ("missing" :> MissingPreview(missing))
  /\ t_pc' = "done"
  /\ UNCHANGED << t_fasta, t_fasta_exists, t_pdb_dir_exists, t_pdbs, t_lines, t_header,
                  per_pdb_count, n_commands, missing, commands >>
  /\ UNCHANGED << evars, fvars >>

ThrNext == ThrStart \/ ThrLine \/ ThrWrite

\* The filtered FASTA the generator reads.
FastaHdrOne == <<">", "e", "1", "_", "_", "r", ",", "s">>

FastaHdrTwo == <<">", "e", "2">>

FastaHdrGone == <<">", "e", "3", "_", "_", "d">>

FastaLines == {FastaHdrOne, FastaHdrTwo, FastaHdrGone, SeqUpper, BlankLine}

PdbOne == <<"e", "1">> \o PdbExt

PdbTwo == <<"e", "2">> \o PdbExt

\* ------------------------------------------------------- specifications
\* Each script runs alone, to completion; the other two have not started.
ExpIdle == e_tree = MissingTree /\ ExpInitState

FilIdle == f_tree = MissingTree /\ f_report_exists = FALSE /\ FilInitState

ThrIdle ==
  /\ t_fasta = << >>
  /\ t_fasta_exists = FALSE
  /\ t_pdb_dir_exists = FALSE
  /\ t_pdbs = {}
  /\ ThrInitState

InitExpander ==
  /\ e_tree \in Trees
  /\ ExpInitState /\ FilIdle /\ ThrIdle

InitFilter ==
  /\ f_tree \in FilterTrees
  /\ f_report_exists \in BOOLEAN
  /\ FilInitState /\ ExpIdle /\ ThrIdle

InitThreading ==
  /\ t_fasta \in SeqsUpTo(FastaLines, MaxFasta)
  /\ t_fasta_exists \in BOOLEAN
  /\ t_pdb_dir_exists \in BOOLEAN
  /\ t_pdbs \in {{PdbOne, PdbTwo}, {PdbOne}}
  /\ (~t_fasta_exists => t_fasta = << >>)
  /\ (~t_pdb_dir_exists => t_pdbs = {PdbOne})
  /\ ThrInitState /\ ExpIdle /\ FilIdle

\* prepare_sequences.py run on any of the trees
SpecExpander == InitExpander /\ [][ExpNext]_vars

\* filter_binders.py run on a tree and any report over the tree
SpecFilter == InitFilter /\ [][FilNext]_vars

\* prepare_threading.py run on any filtered FASTA and structural directory
SpecThreading == InitThreading /\ [][ThrNext]_vars

\* ------------------------------------------------------------ properties
\* The records of a sequence file, as section 6 of the specification lays a
\* file out: each sequence line with the header line that precedes it.
RECURSIVE RecordsFrom(_, _)
RecordsFrom(lines, hdr) ==
  IF lines = << >> THEN << >>
  ELSE LET line == Strip(Head(lines))
       IN  IF line = << >> THEN RecordsFrom(Tail(lines), hdr)
           ELSE IF StartsWith(line, <<">">>) THEN RecordsFrom(Tail(lines), DropFirst(line))
           ELSE IF hdr = NoHeader THEN RecordsFrom(Tail(lines), hdr)
           ELSE <<[header |-> hdr, sequence |-> line]>> \o RecordsFrom(Tail(lines), hdr)

RecordsOf(lines) == RecordsFrom(lines, NoHeader)

\* The records of a file other than its first, the reference.
NonReferenceCount(lines) ==
  IF RecordsOf(lines) = << >> THEN 0 ELSE Len(RecordsOf(lines)) - 1

\* The file the Expander has open.
OpenFileLines == FileLines(e_tree, e_root, e_fname)

\* C1: when the Expander has read a design file to its end, the number of
\* expanded lines the file contributed is 20 times the number of the file's
\* non-reference records.
C1_ExpandedCount ==
  (e_pc = "lines" /\ e_lines = << >>)
    => Len(all_seqs) - e_base = 20 * NonReferenceCount(OpenFileLines)

\* The files of a tree that the Binder Filter indexes.
IndexedFiles(tree) ==
  IF ~tree.exists THEN {}
  ELSE UNION { {<<d.parts, n>> : n \in {m \in DOMAIN d.files : FilterMatches(m)}} :
               d \in Range(tree.walk) }

\* C8: when the Expander is done, the files it expanded are exactly the
\* files whose extension matches .fa ignoring letter case, the files the
\* Binder Filter indexes over the same tree.
C8_SameFiles ==
  e_pc = "done" => e_opened = IndexedFiles(e_tree)

\* The row the Binder Filter has just read is a qualifying row whose third
\* token is the string s.
RowCarries(s) ==
  /\ f_pc = "rows"
  /\ f_nread > 0
  /\ Qualifies(f_line)
  /\ Len(RowParts(f_line)) >= 3
  /\ RowParts(f_line)[3] = s

\* C2, as claimed: for every string A+P the Expander wrote, when A+P is the
\* third token of the qualifying row just read, the peptide recovered is P,
\* letter for letter.
C2_RoundTripExact ==
  \A s \in ExpanderStrings(f_tree) :
    RowCarries(s) => (InSeq(s[1], AA_LIST) /\ pep_orig = DropFirst(s))

\* C2, amended: for every string A+P the Expander wrote, when A+P is the
\* third token of the qualifying row just read, the peptide recovered is P
\* in upper case.
C2_RoundTripUpper ==
  \A s \in ExpanderStrings(f_tree) :
    RowCarries(s) => (InSeq(s[1], AA_LIST) /\ pep_orig = Upper(DropFirst(s)))

\* A row carrying an expanded lower-case design line has been read and its
\* peptide recovered.
C2_Witness ==
  \E s \in ExpanderStrings(f_tree) :
    /\ RowCarries(s)
    /\ DropFirst(s) # Upper(DropFirst(s))
    /\ pep_orig = Upper(DropFirst(s))

\* The output artifact exists: line 94 has opened it for writing.
OutputOpened == f_pc \in {"merge", "done"}

\* C3: the sequence lines of the records emitted so far are strictly
\* ascending in Python's string order, so no two are equal.
C3_StrictlyAscending ==
  OutputOpened =>
    \A i \in 1..Len(f_out) : \A j \in 1..Len(f_out) :
      i < j => StrLess(f_out[i].seq, f_out[j].seq)

\* A finished run that read more qualifying rows than it emitted records,
\* and emitted at least two records.
C3_Witness ==
  /\ f_pc = "done"
  /\ Len(f_out) >= 2
  /\ f_added > Len(f_out)

\* C6: a run whose report or whose design-tree root does not exist never
\* opens its output artifact and never completes.
C6_MissingInputFatal ==
  (~f_report_exists \/ ~f_tree.exists) => ~OutputOpened

\* C7: every qualifying row read either reached the unique-peptide set or
\* was counted as malformed, and a finished run has printed the malformed
\* count with its other counts.
C7_RowAccounting ==
  /\ f_qualifying = f_added + too_short
  /\ f_pc = "done" =>
       /\ {"files", "entries", "unique_indexed", "unique_qualifying", "unmapped"}
            \subseteq DOMAIN f_printed
       /\ "malformed" \in DOMAIN f_printed
       /\ f_printed["malformed"] = too_short

\* Every record of every sequence file of a tree, in scan order, with the
\* experiment name of its file.
FileRecords(d, n) ==
  LET recs == RecordsOf(d.files[n])
  IN  [i \in 1..Len(recs) |->
         [experiment |-> get_experiment_name(Append(d.parts, n)),
          header |-> recs[i].header,
          sequence |-> recs[i].sequence]]

RECURSIVE FilesRecords(_, _)
FilesRecords(d, names) ==
  IF names = << >> THEN << >>
  ELSE (IF FilterMatches(Head(names)) THEN FileRecords(d, Head(names)) ELSE << >>)
         \o FilesRecords(d, Tail(names))

RECURSIVE WalkRecords(_)
WalkRecords(dirs) ==
  IF dirs = << >> THEN << >>
  ELSE FilesRecords(Head(dirs), Sorted(DOMAIN Head(dirs).files)) \o WalkRecords(Tail(dirs))

TreeRecords(tree) == IF tree.exists THEN WalkRecords(tree.walk) ELSE << >>

IndexComplete == f_pc \in {"rows", "merge", "done", "uncaught"}

\* C9: once Pass A is over, the upper-cased sequence of every record of the
\* tree is a key of the index, mapped to the composite header of the last
\* record scanned with that upper-cased sequence, and the unique count
\* printed is the number of distinct upper-cased sequences.
C9_EveryRecordIndexed ==
  IndexComplete =>
    LET recs == TreeRecords(f_tree)
    IN  /\ \A i \in 1..Len(recs) :
             LET key == Upper(recs[i].sequence)
                 last == SetMax({j \in 1..Len(recs) : Upper(recs[j].sequence) = key})
             IN  /\ key \in DOMAIN peptide_to_header
                 /\ peptide_to_header[key]
                      = CompositeHeader(recs[last].experiment, recs[last].header)
        /\ f_printed["unique_indexed"]
             = Cardinality({Upper(recs[i].sequence) : i \in 1..Len(recs)})

\* The last row of the report carried the string s, and the run went on to
\* the merge.
LastRowCarried(s) ==
  /\ f_pc \in {"merge", "done"}
  /\ f_nread > 0
  /\ Qualifies(f_line)
  /\ Len(RowParts(f_line)) >= 3
  /\ RowParts(f_line)[3] = s

\* C10: a string the Expander wrote for the tree, carried by a qualifying
\* row of the report, is never emitted under the header unmapped__{peptide}.
C10_NeverUnmapped ==
  \A s \in ExpanderStrings(f_tree) :
    LastRowCarried(s) =>
      \A i \in 1..Len(f_out) :
        f_out[i].seq = pep_orig => f_out[i].hdr # UnmappedHeader(pep_orig)

\* The records the generator has read so far.
ReadSoFar == SubSeq(t_fasta, 1, Len(t_fasta) - Len(t_lines))

RecordStem(r) == header_to_pdb_stem(r.header)

\* The records among recs whose stem has, or has not, a structural file.
RECURSIVE Resolved(_, _, _)
Resolved(recs, pdbs, want) ==
  IF recs = << >> THEN << >>
  ELSE (IF IsPdbFile(RecordStem(Head(recs)), pdbs) = want THEN <<Head(recs)>> ELSE << >>)
         \o Resolved(Tail(recs), pdbs, want)

\* The first line that is not blank is a sequence line: no header precedes it.
RECURSIVE StartsWithSequence(_)
StartsWithSequence(lines) ==
  IF lines = << >> THEN FALSE
  ELSE IF Strip(Head(lines)) = << >> THEN StartsWithSequence(Tail(lines))
  ELSE ~StartsWith(Strip(Head(lines)), <<">">>)

\* C4: the jobs emitted so far are, in input order, the records read whose
\* stem has a structural file; the k-th job of a stem carries index k; the
\* records whose stem has none are recorded as missing, in order; each
\* counter is the number of jobs of its stem; and a run that has started
\* reading has aborted exactly when its first line that is not blank is a
\* sequence line.
C4_OrderAndIndex ==
  t_pc \in {"lines", "done", "uncaught"} =>
    LET jobs == Resolved(RecordsOf(ReadSoFar), t_pdbs, TRUE)
        gone == Resolved(RecordsOf(ReadSoFar), t_pdbs, FALSE)
        nth(k) == Cardinality({j \in 1..k : RecordStem(jobs[j]) = RecordStem(jobs[k])})
    IN  /\ Len(commands) = Len(jobs)
        /\ \A k \in 1..Len(jobs) :
             /\ commands[k].in_file = PdbPath(RecordStem(jobs[k]))
             /\ commands[k].sequence = jobs[k].sequence
             /\ commands[k].prefix = OutPrefix(nth(k))
        /\ missing = [k \in 1..Len(gone) |-> RecordStem(gone[k])]
        /\ DOMAIN per_pdb_count = {RecordStem(jobs[k]) : k \in 1..Len(jobs)}
        /\ \A k \in 1..Len(jobs) : per_pdb_count[RecordStem(jobs[k])] >= nth(k)
        /\ \A st \in DOMAIN per_pdb_count :
             \E k \in 1..Len(jobs) :
               RecordStem(jobs[k]) = st /\ per_pdb_count[st] = nth(k)
        /\ (t_pc = "uncaught" <=> StartsWithSequence(ReadSoFar))
        /\ (t_pc = "done" => t_cmd_file = commands)

\* A finished run that skipped a record for its missing structural file and
\* went on to emit the second job of a stem.
C4_Witness ==
  /\ t_pc = "done"
  /\ missing # << >>
  /\ \E k \in 1..Len(commands) :
       /\ commands[k].prefix = OutPrefix(2)
       /\ \E m \in 1..Len(t_fasta) : \E n \in 1..Len(t_fasta) :
            m < n /\ t_fasta[m] = FastaHdrGone /\ t_fasta[n] = FastaHdrOne

\* The stem-local index of the k-th job: how many jobs up to it share its
\* structural file.
JobIndex(k) == Cardinality({j \in 1..k : commands[j].in_file = commands[k].in_file})

\* C5: two emitted jobs that differ in stem or in stem-local index have
\* different output prefixes.
C5_PrefixDistinguishes ==
  \A i \in 1..Len(commands) : \A j \in 1..Len(commands) :
    (commands[i].in_file # commands[j].in_file \/ JobIndex(i) # JobIndex(j))
      => commands[i].prefix # commands[j].prefix

====
